---------------------------- MODULE Spec2Model ----------------------------
(***************************************************************************)
(* Model of src/src/p4est_base.c: the allocation counters kept by the      *)
(* p4est_malloc / p4est_calloc / p4est_realloc / p4est_free wrappers, the  *)
(* balance check p4est_memory_check, the abort handler installation        *)
(* p4est_set_abort_handler, the internal signal handler and p4est_abort.   *)
(*                                                                         *)
(* The program is one process.  pc is the statement the process executes   *)
(* next ("idle": the application runs between two calls into this file);   *)
(* the number in a pc value is the source line of that statement.          *)
(* p4est_abort and the signal handler never return, so an interrupted      *)
(* activation is never resumed and one pc is enough.                       *)
(***************************************************************************)
EXTENDS Integers, Sequences, FiniteSets, TLC

(***************************************************************************)
(* Bounds of the model.                                                    *)
(***************************************************************************)
MaxCount == 3
MaxBlocks == 2
MaxFrames == 1

(***************************************************************************)
(* Values.                                                                 *)
(***************************************************************************)
\* width of size_t used for the product nmemb * size (C guarantees >= 16)
SIZE_BITS == 16
SIZE_MOD == 2 ^ SIZE_BITS

\* the null data pointer; heap blocks are 1..MaxBlocks
NULL == 0
Blocks == 1 .. MaxBlocks
Pointers == {NULL} \cup Blocks

\* sizes handed to the allocator: zero, small, and one whose square wraps
Sizes == {0, 1, 2 ^ (SIZE_BITS \div 2)}

\* the null function pointer, the callbacks an application registers
NULLFN == "NULL"
Callbacks == {"cb1", "cb2"}
Datas == {NULL, 1}
Identifiers == {-1, 7}

SIGINT == "SIGINT"
SIGSEGV == "SIGSEGV"
SIGUSR2 == "SIGUSR2"
Signals == {SIGINT, SIGSEGV, SIGUSR2}

SIG_DFL == "SIG_DFL"
SIG_IGN == "SIG_IGN"
SIG_ERR == "SIG_ERR"
p4est_signal_handler == "p4est_signal_handler"
\* dispositions the application may have set before this file is used
PriorDispositions == {SIG_DFL, SIG_IGN}

\* symbols backtrace_symbols may return, as character sequences
Symbols == { <<"f">>, <<"/", "l", "/", "g">> }

RECURSIVE SeqsUpTo(_, _)
SeqsUpTo(S, n) ==
  IF n = 0 THEN { <<>> }
  ELSE LET shorter == SeqsUpTo(S, n - 1)
       IN  shorter \cup { Append(q, x) : q \in { r \in shorter : Len(r) = n - 1 }, x \in S }

Backtraces == SeqsUpTo(Symbols, MaxFrames)

VARIABLES
  malloc_count,            \* line 57
  free_count,              \* line 58
  p4est_base_identifier,   \* line 60
  p4est_abort_handler,     \* line 61
  p4est_abort_data,        \* line 62
  signals_caught,          \* line 64
  system_int_handler,      \* line 65
  system_segv_handler,     \* line 66
  system_usr2_handler,     \* line 67
  heap,                    \* platform allocator: the live blocks
  os_disp,                 \* OS: disposition of each watched signal
  os_rejects,              \* OS: signals for which signal() reports SIG_ERR
  blocked,                 \* OS: signals blocked while their handler runs
  P4EST_BACKTRACE,         \* build: whether lines 230-253 are compiled in
  pc,                      \* the statement executed next
  args,                    \* arguments and locals of the running activation
  out,                     \* what the process wrote, flushed and called since
                           \* it last entered the signal handler
  last,                    \* the last call that returned to the application
  paired,                  \* only malloc/free of matching blocks so far
  prior_disp,              \* OS dispositions when the handlers were installed
  resized,                 \* only malloc, nonzero resizes and free of live
                           \* blocks so far
  cb_calls,                \* how often the registered callback was invoked
  util                     \* the last call of a utility (comparator, table)

vars == << malloc_count, free_count, p4est_base_identifier, p4est_abort_handler,
           p4est_abort_data, signals_caught, system_int_handler,
           system_segv_handler, system_usr2_handler, heap, os_disp, os_rejects,
           blocked, P4EST_BACKTRACE, pc, args, out, last, paired, prior_disp,
           resized, cb_calls, util >>

counters == << malloc_count, free_count >>
fault_state == << p4est_base_identifier, p4est_abort_handler, p4est_abort_data,
                  signals_caught, system_int_handler, system_segv_handler,
                  system_usr2_handler >>
os_state == << os_disp, os_rejects, blocked, P4EST_BACKTRACE, prior_disp >>
\* everything but the record of the utility calls
program == << counters, heap, fault_state, os_state, pc, args, out, last,
              paired, resized, cb_calls >>

NoArgs == [identifier |-> -1, handler |-> NULLFN, data |-> NULL, caught |-> 0,
           sig |-> "none", prefix |-> << >>, start |-> 0]
NoCall == [fn |-> "none", ptr |-> NULL, nmemb |-> 1, size |-> 0, dret |-> NULL,
           ret |-> NULL, dealloc |-> FALSE, pre_m |-> 0, pre_f |-> 0]

NoUtil == [fn |-> "none"]

(***************************************************************************)
(* Output: one record per observable effect, in the order of occurrence.   *)
(***************************************************************************)
StderrLine(tokens) == [ev |-> "stderr", line |-> tokens]
Flush(stream) == [ev |-> "fflush", line |-> << stream >>]
CallbackCall(fn, data) == [ev |-> "call", line |-> << fn, data >>]
AbortCall == [ev |-> "abort", line |-> << >>]

\* snprintf (prefix, BUFSIZ, "[%d] ", id), or the empty string
Prefix(id) == IF id >= 0 THEN << "[", id, "] " >> ELSE << >>

(***************************************************************************)
(* P4EST_CHECK_ABORT (c, s) of p4est_base.h: when c is false, report s and *)
(* enter p4est_abort; otherwise go on with the next statement.             *)
(***************************************************************************)
CHECK_ABORT(c, s, next) ==
  IF c
  THEN /\ pc' = next
       /\ out' = out
       /\ args' = (IF next = "idle" THEN NoArgs ELSE args)
  ELSE /\ out' = Append(out, StderrLine(<< "Abort: ", s >>))
       /\ pc' = "abort_223"
       /\ args' = [NoArgs EXCEPT !.start = Len(out) + 1]

(***************************************************************************)
(* The platform allocator.                                                 *)
(***************************************************************************)
\* malloc, calloc, realloc (NULL, n): failure, or a block that is not live
DelegateAlloc == {NULL} \cup (Blocks \ heap)

Outcome(r, h, c) == [ret |-> r, heap |-> h, crash |-> c]

\* realloc (ptr, size)
ReallocOutcomes(ptr, size) ==
  IF ptr = NULL
  THEN { Outcome(r, heap \cup ({r} \ {NULL}), FALSE) : r \in DelegateAlloc }
  ELSE IF ptr \in heap
  THEN IF size > 0
       THEN \* failure keeps the block; success keeps or moves it
            { Outcome(NULL, heap, FALSE), Outcome(ptr, heap, FALSE) }
              \cup { Outcome(b, (heap \ {ptr}) \cup {b}, FALSE) : b \in Blocks \ heap }
       ELSE \* size 0: the block is freed and NULL returned, or NULL is a
            \* failure that keeps it, or a minimal block is returned
            { Outcome(NULL, heap \ {ptr}, FALSE), Outcome(NULL, heap, FALSE) }
              \cup { Outcome(b, (heap \ {ptr}) \cup {b}, FALSE) :
                       b \in (Blocks \ heap) \cup {ptr} }
  ELSE \* a pointer that is not live: undefined behaviour
       { Outcome(NULL, heap, TRUE) }
         \cup { Outcome(r, heap \cup ({r} \ {NULL}), FALSE) : r \in DelegateAlloc }

\* free (ptr) of a non-null pointer; a pointer that is not live is undefined
FreeOutcomes(ptr) ==
  IF ptr \in heap
  THEN { Outcome(NULL, heap \ {ptr}, FALSE) }
  ELSE { Outcome(NULL, heap, FALSE), Outcome(NULL, heap, TRUE) }

Returned(fn, ptr, nmemb, size, dret, ret, dealloc) ==
  [fn |-> fn, ptr |-> ptr, nmemb |-> nmemb, size |-> size, dret |-> dret,
   ret |-> ret, dealloc |-> dealloc, pre_m |-> malloc_count, pre_f |-> free_count]

(***************************************************************************)
(* Allocation wrappers, lines 107-170.                                     *)
(***************************************************************************)
\* p4est_malloc counting a zero-size request never
p4est_malloc_nonzero_only(size, ret) ==
  /\ pc = "idle"
  /\ malloc_count < MaxCount
  /\ ret \in DelegateAlloc
  /\ heap' = heap \cup ({ret} \ {NULL})
  /\ malloc_count' = IF size > 0 THEN malloc_count + 1 ELSE malloc_count
  /\ last' = Returned("malloc", NULL, 1, size, ret, ret, FALSE)
  /\ paired' = (paired /\ ret # NULL)
  /\ resized' = (resized /\ ret # NULL)
  /\ UNCHANGED << free_count, fault_state, os_state, pc, args, out, cb_calls,
                  util >>

\* p4est_malloc counting only the requests that succeeded
p4est_malloc_success_only(size, ret) ==
  /\ pc = "idle"
  /\ malloc_count < MaxCount
  /\ ret \in DelegateAlloc
  /\ heap' = heap \cup ({ret} \ {NULL})
  /\ malloc_count' = malloc_count + (IF ret = NULL THEN 0 ELSE 1)
  /\ last' = Returned("malloc", NULL, 1, size, ret, ret, FALSE)
  /\ paired' = (paired /\ ret # NULL)
  /\ resized' = (resized /\ ret # NULL)
  /\ UNCHANGED << free_count, fault_state, os_state, pc, args, out, cb_calls,
                  util >>

p4est_malloc(size, ret) ==
  /\ pc = "idle"
  /\ malloc_count < MaxCount
  /\ ret \in DelegateAlloc
  /\ heap' = heap \cup ({ret} \ {NULL})
  /\ malloc_count' = IF size > 0
                     THEN malloc_count + 1
                     ELSE malloc_count + (IF ret = NULL THEN 0 ELSE 1)
  /\ last' = Returned("malloc", NULL, 1, size, ret, ret, FALSE)
  /\ paired' = (paired /\ ret # NULL)
  /\ resized' = (resized /\ ret # NULL)
  /\ UNCHANGED << free_count, fault_state, os_state, pc, args, out, cb_calls,
                  util >>

\* p4est_calloc testing the product without its wrap-around
p4est_calloc_unbounded_product(nmemb, size, ret) ==
  /\ pc = "idle"
  /\ malloc_count < MaxCount
  /\ ret \in DelegateAlloc
  /\ heap' = heap \cup ({ret} \ {NULL})
  /\ malloc_count' = IF nmemb * size > 0
                     THEN malloc_count + 1
                     ELSE malloc_count + (IF ret = NULL THEN 0 ELSE 1)
  /\ last' = Returned("calloc", NULL, nmemb, size, ret, ret, FALSE)
  /\ paired' = FALSE
  /\ resized' = FALSE
  /\ UNCHANGED << free_count, fault_state, os_state, pc, args, out, cb_calls,
                  util >>

p4est_calloc(nmemb, size, ret) ==
  /\ pc = "idle"
  /\ malloc_count < MaxCount
  /\ ret \in DelegateAlloc
  /\ heap' = heap \cup ({ret} \ {NULL})
  /\ malloc_count' = IF (nmemb * size) % SIZE_MOD > 0
                     THEN malloc_count + 1
                     ELSE malloc_count + (IF ret = NULL THEN 0 ELSE 1)
  /\ last' = Returned("calloc", NULL, nmemb, size, ret, ret, FALSE)
  /\ paired' = FALSE
  /\ resized' = FALSE
  /\ UNCHANGED << free_count, fault_state, os_state, pc, args, out, cb_calls,
                  util >>

\* p4est_realloc counting a nonzero resize that moved the block as an allocation
p4est_realloc_counts_moves(ptr, size, o) ==
  /\ pc = "idle"
  /\ malloc_count < MaxCount
  /\ free_count < MaxCount
  /\ o \in ReallocOutcomes(ptr, size)
  /\ heap' = o.heap
  /\ paired' = FALSE
  /\ resized' = (resized /\ ptr \in heap /\ size > 0)
  /\ IF o.crash
     THEN /\ pc' = "crashed"
          /\ UNCHANGED << counters, last >>
     ELSE /\ pc' = pc
          /\ IF ptr = NULL
             THEN /\ malloc_count' = IF size > 0
                                     THEN malloc_count + 1
                                     ELSE malloc_count + (IF o.ret = NULL THEN 0 ELSE 1)
                  /\ free_count' = free_count
             ELSE IF size = 0
             THEN /\ free_count' = free_count + (IF o.ret = NULL THEN 1 ELSE 0)
                  /\ malloc_count' = malloc_count
             ELSE /\ malloc_count' = malloc_count
                                       + (IF o.ret \notin {NULL, ptr} THEN 1 ELSE 0)
                  /\ free_count' = free_count
          /\ last' = Returned("realloc", ptr, 1, size, o.ret, o.ret, FALSE)
  /\ UNCHANGED << fault_state, os_state, args, out, cb_calls, util >>

\* p4est_realloc counting every zero-size resize as a free
p4est_realloc_zero_always_frees(ptr, size, o) ==
  /\ pc = "idle"
  /\ malloc_count < MaxCount
  /\ free_count < MaxCount
  /\ o \in ReallocOutcomes(ptr, size)
  /\ heap' = o.heap
  /\ paired' = FALSE
  /\ resized' = (resized /\ ptr \in heap /\ size > 0)
  /\ IF o.crash
     THEN /\ pc' = "crashed"
          /\ UNCHANGED << counters, last >>
     ELSE /\ pc' = pc
          /\ IF ptr = NULL
             THEN /\ malloc_count' = IF size > 0
                                     THEN malloc_count + 1
                                     ELSE malloc_count + (IF o.ret = NULL THEN 0 ELSE 1)
                  /\ free_count' = free_count
             ELSE IF size = 0
             THEN /\ free_count' = free_count + 1
                  /\ malloc_count' = malloc_count
             ELSE UNCHANGED counters
          /\ last' = Returned("realloc", ptr, 1, size, o.ret, o.ret, FALSE)
  /\ UNCHANGED << fault_state, os_state, args, out, cb_calls, util >>

p4est_realloc(ptr, size, o) ==
  /\ pc = "idle"
  /\ malloc_count < MaxCount
  /\ free_count < MaxCount
  /\ o \in ReallocOutcomes(ptr, size)
  /\ heap' = o.heap
  /\ paired' = FALSE
  /\ resized' = (resized /\ ptr \in heap /\ size > 0)
  /\ IF o.crash
     THEN /\ pc' = "crashed"
          /\ UNCHANGED << counters, last >>
     ELSE /\ pc' = pc
          /\ IF ptr = NULL
             THEN /\ malloc_count' = IF size > 0
                                     THEN malloc_count + 1
                                     ELSE malloc_count + (IF o.ret = NULL THEN 0 ELSE 1)
                  /\ free_count' = free_count
             ELSE IF size = 0
             THEN /\ free_count' = free_count + (IF o.ret = NULL THEN 1 ELSE 0)
                  /\ malloc_count' = malloc_count
             ELSE UNCHANGED counters
          /\ last' = Returned("realloc", ptr, 1, size, o.ret, o.ret, FALSE)
  /\ UNCHANGED << fault_state, os_state, args, out, cb_calls, util >>

\* p4est_free counting before it tests the pointer
p4est_free_counts_null(ptr, o) ==
  /\ pc = "idle"
  /\ free_count < MaxCount
  /\ free_count' = free_count + 1
  /\ IF ptr # NULL
     THEN /\ o \in FreeOutcomes(ptr)
          /\ heap' = o.heap
          /\ pc' = (IF o.crash THEN "crashed" ELSE pc)
          /\ last' = (IF o.crash THEN last
                      ELSE Returned("free", ptr, 1, 0, NULL, NULL, TRUE))
          /\ paired' = (paired /\ ptr \in heap)
          /\ resized' = (resized /\ ptr \in heap)
     ELSE /\ o = Outcome(NULL, heap, FALSE)
          /\ last' = Returned("free", ptr, 1, 0, NULL, NULL, FALSE)
          /\ paired' = FALSE
          /\ resized' = FALSE
          /\ UNCHANGED << heap, pc >>
  /\ UNCHANGED << malloc_count, fault_state, os_state, args, out, cb_calls,
                  util >>

p4est_free(ptr, o) ==
  /\ pc = "idle"
  /\ free_count < MaxCount
  /\ IF ptr # NULL
     THEN /\ o \in FreeOutcomes(ptr)
          /\ free_count' = free_count + 1
          /\ heap' = o.heap
          /\ pc' = (IF o.crash THEN "crashed" ELSE pc)
          /\ last' = (IF o.crash THEN last
                      ELSE Returned("free", ptr, 1, 0, NULL, NULL, TRUE))
          /\ paired' = (paired /\ ptr \in heap)
          /\ resized' = (resized /\ ptr \in heap)
     ELSE /\ o = Outcome(NULL, heap, FALSE)
          /\ last' = Returned("free", ptr, 1, 0, NULL, NULL, FALSE)
          /\ paired' = FALSE
          /\ resized' = FALSE
          /\ UNCHANGED << free_count, heap, pc >>
  /\ UNCHANGED << malloc_count, fault_state, os_state, args, out, cb_calls,
                  util >>

(***************************************************************************)
(* p4est_memory_check, lines 172-176.                                      *)
(***************************************************************************)
\* p4est_memory_check reporting leaks only: malloc_count <= free_count passes
p4est_memory_check_leaks_only ==
  /\ pc = "idle"
  /\ CHECK_ABORT(malloc_count <= free_count, "Memory balance", "idle")
  /\ last' = (IF malloc_count <= free_count
              THEN Returned("memory_check", NULL, 1, 0, NULL, NULL, FALSE)
              ELSE last)
  /\ UNCHANGED << counters, heap, fault_state, os_state, paired, resized,
                  cb_calls, util >>

p4est_memory_check ==
  /\ pc = "idle"
  /\ CHECK_ABORT(malloc_count = free_count, "Memory balance", "idle")
  /\ last' = (IF malloc_count = free_count
              THEN Returned("memory_check", NULL, 1, 0, NULL, NULL, FALSE)
              ELSE last)
  /\ UNCHANGED << counters, heap, fault_state, os_state, paired, resized,
                  cb_calls, util >>


(***************************************************************************)
(* p4est_abort, lines 211-263.                                             *)
(***************************************************************************)
\* the application calls p4est_abort ()
call_p4est_abort ==
  /\ pc = "idle"
  /\ pc' = "abort_223"
  /\ args' = [NoArgs EXCEPT !.start = Len(out)]
  /\ UNCHANGED << counters, heap, fault_state, os_state, out, last,
                  paired, resized, cb_calls, util >>

abort_223 ==
  /\ pc = "abort_223"
  /\ args' = [args EXCEPT !.prefix = Prefix(p4est_base_identifier)]
  /\ pc' = (IF P4EST_BACKTRACE THEN "abort_231" ELSE "abort_255")
  /\ UNCHANGED << counters, heap, fault_state, os_state, out, last,
                  paired, resized, cb_calls, util >>

\* strchr in place of strrchr: the symbol is cut after its first '/'
Basename_strchr(s) ==
  IF \E i \in 1 .. Len(s) : s[i] = "/"
  THEN LET first == CHOOSE i \in 1 .. Len(s) :
                      /\ s[i] = "/"
                      /\ \A j \in 1 .. i - 1 : s[j] # "/"
       IN  SubSeq(s, first + 1, Len(s))
  ELSE s

\* str = strrchr (s, '/'); if (str != NULL) ++str; else str = s;
RECURSIVE Basename(_)
Basename(s) ==
  IF \E i \in 1 .. Len(s) : s[i] = "/"
  THEN Basename(Tail(s))
  ELSE s

FrameLine(prefix, symbol) == StderrLine(prefix \o << "   " >> \o Basename(symbol))

\* lines 231-252: the header line, then one line per frame
abort_231 ==
  /\ pc = "abort_231"
  /\ \E bt \in Backtraces :
       out' = out
                \o << StderrLine(args.prefix
                                   \o << "Abort: Obtained ", Len(bt), " stack frames" >>) >>
                \o [i \in 1 .. Len(bt) |-> FrameLine(args.prefix, bt[i])]
  /\ pc' = "abort_255"
  /\ UNCHANGED << counters, heap, fault_state, os_state, args, last,
                  paired, resized, cb_calls, util >>

abort_255 ==
  /\ pc = "abort_255"
  /\ out' = Append(out, Flush("stdout"))
  /\ pc' = "abort_256"
  /\ UNCHANGED << counters, heap, fault_state, os_state, args, last,
                  paired, resized, cb_calls, util >>

\* lines 258-260 placed before the flushes
abort_256_calls_back ==
  /\ pc = "abort_256"
  /\ IF p4est_abort_handler # NULLFN
     THEN /\ out' = out \o << CallbackCall(p4est_abort_handler, p4est_abort_data),
                              Flush("stderr") >>
          /\ cb_calls' = cb_calls + 1
     ELSE /\ out' = Append(out, Flush("stderr"))
          /\ cb_calls' = cb_calls
  /\ pc' = "abort_262"
  /\ UNCHANGED << counters, heap, fault_state, os_state, args, last,
                  paired, resized, util >>

abort_256 ==
  /\ pc = "abort_256"
  /\ out' = Append(out, Flush("stderr"))
  /\ pc' = "abort_258"
  /\ UNCHANGED << counters, heap, fault_state, os_state, args, last,
                  paired, resized, cb_calls, util >>

\* if (p4est_abort_handler != NULL) p4est_abort_handler (p4est_abort_data);
abort_258 ==
  /\ pc = "abort_258"
  /\ IF p4est_abort_handler # NULLFN
     THEN /\ out' = Append(out, CallbackCall(p4est_abort_handler, p4est_abort_data))
          /\ cb_calls' = cb_calls + 1
          /\ pc' = "callback"
     ELSE /\ out' = out
          /\ cb_calls' = cb_calls
          /\ pc' = "abort_262"
  /\ UNCHANGED << counters, heap, fault_state, os_state, args, last,
                  paired, resized, util >>

\* the callback returns to line 260
callback_return ==
  /\ pc = "callback"
  /\ pc' = "abort_262"
  /\ UNCHANGED << counters, heap, fault_state, os_state, args, out, last,
                  paired, resized, cb_calls, util >>

\* line 262 replaced by a return to the caller
abort_262_returns ==
  /\ pc = "abort_262"
  /\ out' = out
  /\ pc' = "idle"
  /\ UNCHANGED << counters, heap, fault_state, os_state, args, last,
                  paired, resized, cb_calls, util >>

\* abort ();
abort_262 ==
  /\ pc = "abort_262"
  /\ out' = Append(out, AbortCall)
  /\ pc' = "aborted"
  /\ UNCHANGED << counters, heap, fault_state, os_state, args, last,
                  paired, resized, cb_calls, util >>

p4est_abort ==
  \/ abort_223
  \/ abort_231
  \/ abort_255
  \/ abort_256
  \/ abort_258
  \/ callback_return
  \/ abort_262

AbortPcs == {"abort_223", "abort_231", "abort_255", "abort_256", "abort_258",
             "callback", "abort_262"}

(***************************************************************************)
(* The allocation accountant: an application that uses the wrappers and    *)
(* the balance check, with or without a registered callback.               *)
(***************************************************************************)
InitAccountant ==
  /\ malloc_count = 0
  /\ free_count = 0
  /\ heap = {}
  /\ last = NoCall
  /\ paired = TRUE
  /\ resized = TRUE

InitProcess ==
  /\ blocked = {}
  /\ P4EST_BACKTRACE \in BOOLEAN
  /\ pc = "idle"
  /\ args = NoArgs
  /\ out = << >>
  /\ cb_calls = 0
  /\ util = NoUtil

InitCommon == InitAccountant /\ InitProcess

Uninstalled ==
  /\ p4est_base_identifier = -1
  /\ p4est_abort_handler = NULLFN
  /\ p4est_abort_data = NULL
  /\ signals_caught = 0
  /\ system_int_handler = NULLFN
  /\ system_segv_handler = NULLFN
  /\ system_usr2_handler = NULLFN

\* the state p4est_set_abort_handler (7, cb1, 1) leaves from default dispositions
InstalledFromDefault ==
  /\ p4est_base_identifier = 7
  /\ p4est_abort_handler = "cb1"
  /\ p4est_abort_data = 1
  /\ signals_caught = 1
  /\ system_int_handler = SIG_DFL
  /\ system_segv_handler = SIG_DFL
  /\ system_usr2_handler = SIG_DFL
  /\ os_disp = [s \in Signals |-> p4est_signal_handler]
  /\ prior_disp = [s \in Signals |-> SIG_DFL]
  /\ os_rejects = {}

InitAlloc ==
  /\ InitCommon
  /\ \/ InstalledFromDefault
     \/ /\ Uninstalled
        /\ os_disp = [s \in Signals |-> SIG_DFL]
        /\ prior_disp = os_disp
        /\ os_rejects = {}

NextAlloc ==
  \/ \E size \in Sizes, ret \in Pointers : p4est_malloc(size, ret)
  \/ \E nmemb \in Sizes, size \in Sizes, ret \in Pointers : p4est_calloc(nmemb, size, ret)
  \/ \E ptr \in Pointers, size \in Sizes :
       \E o \in ReallocOutcomes(ptr, size) : p4est_realloc(ptr, size, o)
  \/ \E ptr \in Pointers :
       \E o \in FreeOutcomes(ptr) \cup {Outcome(NULL, heap, FALSE)} : p4est_free(ptr, o)
  \/ p4est_memory_check
  \/ p4est_abort

SpecAlloc == InitAlloc /\ [][NextAlloc]_vars

(***************************************************************************)
(* The OS: signal (sig, h) installs h and returns the previous disposition,*)
(* or returns SIG_ERR and changes nothing for a signal it rejects.         *)
(***************************************************************************)
signal_ret(sig) == IF sig \in os_rejects THEN SIG_ERR ELSE os_disp[sig]
signal_disp(sig, h) ==
  IF sig \in os_rejects THEN os_disp ELSE [os_disp EXCEPT ![sig] = h]

(***************************************************************************)
(* p4est_set_abort_handler, lines 184-209, one action per statement.       *)
(***************************************************************************)
SahReturned ==
  [fn |-> "set_abort_handler", identifier |-> args.identifier,
   handler |-> args.handler, data |-> args.data, caught |-> args.caught]

call_set_abort_handler(identifier, handler, data) ==
  /\ pc = "idle"
  /\ pc' = "sah_187"
  /\ args' = [NoArgs EXCEPT !.identifier = identifier, !.handler = handler,
                            !.data = data, !.caught = signals_caught]
  /\ prior_disp' = (IF signals_caught = 0 THEN os_disp ELSE prior_disp)
  /\ UNCHANGED << counters, heap, fault_state, os_disp, os_rejects, blocked,
                  P4EST_BACKTRACE, out, last, paired, resized, cb_calls, util >>

sah_187 ==
  /\ pc = "sah_187"
  /\ p4est_base_identifier' = args.identifier
  /\ pc' = "sah_188"
  /\ UNCHANGED << counters, heap, p4est_abort_handler, p4est_abort_data,
                  signals_caught, system_int_handler, system_segv_handler,
                  system_usr2_handler, os_state, args, out, last,
                  paired, resized, cb_calls, util >>

sah_188 ==
  /\ pc = "sah_188"
  /\ p4est_abort_handler' = args.handler
  /\ pc' = "sah_189"
  /\ UNCHANGED << counters, heap, p4est_base_identifier, p4est_abort_data,
                  signals_caught, system_int_handler, system_segv_handler,
                  system_usr2_handler, os_state, args, out, last,
                  paired, resized, cb_calls, util >>

sah_189 ==
  /\ pc = "sah_189"
  /\ p4est_abort_data' = args.data
  /\ pc' = "sah_191"
  /\ UNCHANGED << counters, heap, p4est_base_identifier, p4est_abort_handler,
                  signals_caught, system_int_handler, system_segv_handler,
                  system_usr2_handler, os_state, args, out, last,
                  paired, resized, cb_calls, util >>

\* line 200 without the test of signals_caught
sah_191_always_restores ==
  /\ pc = "sah_191"
  /\ IF args.handler # NULLFN /\ signals_caught = 0
     THEN pc' = "sah_192" /\ UNCHANGED << args, last >>
     ELSE IF args.handler = NULLFN
     THEN pc' = "sah_201" /\ UNCHANGED << args, last >>
     ELSE pc' = "idle" /\ last' = SahReturned /\ args' = NoArgs
  /\ UNCHANGED << counters, heap, fault_state, os_state, out, paired,
                  resized, cb_calls, util >>

\* line 191 without the test of signals_caught
sah_191_always_catches ==
  /\ pc = "sah_191"
  /\ IF args.handler # NULLFN
     THEN pc' = "sah_192" /\ UNCHANGED << args, last >>
     ELSE IF signals_caught # 0
     THEN pc' = "sah_201" /\ UNCHANGED << args, last >>
     ELSE pc' = "idle" /\ last' = SahReturned /\ args' = NoArgs
  /\ UNCHANGED << counters, heap, fault_state, os_state, out, paired,
                  resized, cb_calls, util >>

\* the conditions of lines 191 and 200
sah_191 ==
  /\ pc = "sah_191"
  /\ IF args.handler # NULLFN /\ signals_caught = 0
     THEN pc' = "sah_192" /\ UNCHANGED << args, last >>
     ELSE IF args.handler = NULLFN /\ signals_caught # 0
     THEN pc' = "sah_201" /\ UNCHANGED << args, last >>
     ELSE pc' = "idle" /\ last' = SahReturned /\ args' = NoArgs
  /\ UNCHANGED << counters, heap, fault_state, os_state, out, paired,
                  resized, cb_calls, util >>

sah_192 ==
  /\ pc = "sah_192"
  /\ system_int_handler' = signal_ret(SIGINT)
  /\ os_disp' = signal_disp(SIGINT, p4est_signal_handler)
  /\ pc' = "sah_193"
  /\ UNCHANGED << counters, heap, p4est_base_identifier, p4est_abort_handler,
                  p4est_abort_data, signals_caught, system_segv_handler,
                  system_usr2_handler, os_rejects, blocked, P4EST_BACKTRACE,
                  prior_disp, args, out, last, paired, resized,
                  cb_calls, util >>

sah_193 ==
  /\ pc = "sah_193"
  /\ CHECK_ABORT(system_int_handler # SIG_ERR, "catching INT", "sah_194")
  /\ UNCHANGED << counters, heap, fault_state, os_state, last, paired,
                  resized, cb_calls, util >>

sah_194 ==
  /\ pc = "sah_194"
  /\ system_segv_handler' = signal_ret(SIGSEGV)
  /\ os_disp' = signal_disp(SIGSEGV, p4est_signal_handler)
  /\ pc' = "sah_195"
  /\ UNCHANGED << counters, heap, p4est_base_identifier, p4est_abort_handler,
                  p4est_abort_data, signals_caught, system_int_handler,
                  system_usr2_handler, os_rejects, blocked, P4EST_BACKTRACE,
                  prior_disp, args, out, last, paired, resized,
                  cb_calls, util >>

\* line 195 testing the result saved for SIGINT
sah_195_tests_int ==
  /\ pc = "sah_195"
  /\ CHECK_ABORT(system_int_handler # SIG_ERR, "catching SEGV", "sah_196")
  /\ UNCHANGED << counters, heap, fault_state, os_state, last, paired,
                  resized, cb_calls, util >>

sah_195 ==
  /\ pc = "sah_195"
  /\ CHECK_ABORT(system_segv_handler # SIG_ERR, "catching SEGV", "sah_196")
  /\ UNCHANGED << counters, heap, fault_state, os_state, last, paired,
                  resized, cb_calls, util >>

sah_196 ==
  /\ pc = "sah_196"
  /\ system_usr2_handler' = signal_ret(SIGUSR2)
  /\ os_disp' = signal_disp(SIGUSR2, p4est_signal_handler)
  /\ pc' = "sah_197"
  /\ UNCHANGED << counters, heap, p4est_base_identifier, p4est_abort_handler,
                  p4est_abort_data, signals_caught, system_int_handler,
                  system_segv_handler, os_rejects, blocked, P4EST_BACKTRACE,
                  prior_disp, args, out, last, paired, resized,
                  cb_calls, util >>

sah_197 ==
  /\ pc = "sah_197"
  /\ CHECK_ABORT(system_usr2_handler # SIG_ERR, "catching USR2", "sah_198")
  /\ UNCHANGED << counters, heap, fault_state, os_state, last, paired,
                  resized, cb_calls, util >>

sah_198 ==
  /\ pc = "sah_198"
  /\ signals_caught' = 1
  /\ pc' = "idle"
  /\ last' = SahReturned
  /\ args' = NoArgs
  /\ UNCHANGED << counters, heap, p4est_base_identifier, p4est_abort_handler,
                  p4est_abort_data, system_int_handler, system_segv_handler,
                  system_usr2_handler, os_state, out, paired,
                  resized, cb_calls, util >>

sah_201 ==
  /\ pc = "sah_201"
  /\ os_disp' = signal_disp(SIGINT, system_int_handler)
  /\ pc' = "sah_202"
  /\ UNCHANGED << counters, heap, fault_state, os_rejects, blocked,
                  P4EST_BACKTRACE, prior_disp, args, out, last,
                  paired, resized, cb_calls, util >>

sah_202 ==
  /\ pc = "sah_202"
  /\ system_int_handler' = NULLFN
  /\ pc' = "sah_203"
  /\ UNCHANGED << counters, heap, p4est_base_identifier, p4est_abort_handler,
                  p4est_abort_data, signals_caught, system_segv_handler,
                  system_usr2_handler, os_state, args, out, last,
                  paired, resized, cb_calls, util >>

\* line 203 restoring SIGSEGV from the disposition saved for SIGINT
sah_203_restores_int ==
  /\ pc = "sah_203"
  /\ os_disp' = signal_disp(SIGSEGV, system_int_handler)
  /\ pc' = "sah_204"
  /\ UNCHANGED << counters, heap, fault_state, os_rejects, blocked,
                  P4EST_BACKTRACE, prior_disp, args, out, last,
                  paired, resized, cb_calls, util >>

sah_203 ==
  /\ pc = "sah_203"
  /\ os_disp' = signal_disp(SIGSEGV, system_segv_handler)
  /\ pc' = "sah_204"
  /\ UNCHANGED << counters, heap, fault_state, os_rejects, blocked,
                  P4EST_BACKTRACE, prior_disp, args, out, last,
                  paired, resized, cb_calls, util >>

sah_204 ==
  /\ pc = "sah_204"
  /\ system_segv_handler' = NULLFN
  /\ pc' = "sah_205"
  /\ UNCHANGED << counters, heap, p4est_base_identifier, p4est_abort_handler,
                  p4est_abort_data, signals_caught, system_int_handler,
                  system_usr2_handler, os_state, args, out, last,
                  paired, resized, cb_calls, util >>

sah_205 ==
  /\ pc = "sah_205"
  /\ os_disp' = signal_disp(SIGUSR2, system_usr2_handler)
  /\ pc' = "sah_206"
  /\ UNCHANGED << counters, heap, fault_state, os_rejects, blocked,
                  P4EST_BACKTRACE, prior_disp, args, out, last,
                  paired, resized, cb_calls, util >>

sah_206 ==
  /\ pc = "sah_206"
  /\ system_usr2_handler' = NULLFN
  /\ pc' = "sah_207"
  /\ UNCHANGED << counters, heap, p4est_base_identifier, p4est_abort_handler,
                  p4est_abort_data, signals_caught, system_int_handler,
                  system_segv_handler, os_state, args, out, last,
                  paired, resized, cb_calls, util >>

sah_207 ==
  /\ pc = "sah_207"
  /\ signals_caught' = 0
  /\ pc' = "idle"
  /\ last' = SahReturned
  /\ args' = NoArgs
  /\ UNCHANGED << counters, heap, p4est_base_identifier, p4est_abort_handler,
                  p4est_abort_data, system_int_handler, system_segv_handler,
                  system_usr2_handler, os_state, out, paired,
                  resized, cb_calls, util >>

p4est_set_abort_handler ==
  \/ sah_187 \/ sah_188 \/ sah_189 \/ sah_191
  \/ sah_192 \/ sah_193 \/ sah_194 \/ sah_195 \/ sah_196 \/ sah_197 \/ sah_198
  \/ sah_201 \/ sah_202 \/ sah_203 \/ sah_204 \/ sah_205 \/ sah_206 \/ sah_207

SahPcs == {"sah_187", "sah_188", "sah_189", "sah_191", "sah_192", "sah_193",
           "sah_194", "sah_195", "sah_196", "sah_197", "sah_198", "sah_201",
           "sah_202", "sah_203", "sah_204", "sah_205", "sah_206", "sah_207"}

(***************************************************************************)
(* Signal delivery and the internal handler, lines 69-99.                  *)
(***************************************************************************)
Terminated == pc \in {"aborted", "killed", "crashed"}

\* the OS delivers sig to the internal handler, which it blocks meanwhile
deliver_handled(sig) ==
  /\ ~Terminated
  /\ sig \notin blocked
  /\ os_disp[sig] = p4est_signal_handler
  /\ blocked' = blocked \cup {sig}
  /\ pc' = "sig_75"
  /\ args' = [NoArgs EXCEPT !.sig = sig]
  /\ out' = << >>
  /\ UNCHANGED << counters, heap, fault_state, os_disp, os_rejects,
                  P4EST_BACKTRACE, prior_disp, last, paired, resized,
                  cb_calls, util >>

\* the default action of SIGINT, SIGSEGV and SIGUSR2 ends the process
deliver_default(sig) ==
  /\ ~Terminated
  /\ sig \notin blocked
  /\ os_disp[sig] = SIG_DFL
  /\ pc' = "killed"
  /\ UNCHANGED << counters, heap, fault_state, os_state, args, out, last,
                  paired, resized, cb_calls, util >>

\* the switch of lines 82-96 without the break of case SIGINT
SigStr_int_falls_through(sig) ==
  CASE sig = SIGINT -> "SEGV"
    [] sig = SIGSEGV -> "SEGV"
    [] sig = SIGUSR2 -> "USR2"
    [] OTHER -> "<unknown>"

SigStr(sig) ==
  CASE sig = SIGINT -> "INT"
    [] sig = SIGSEGV -> "SEGV"
    [] sig = SIGUSR2 -> "USR2"
    [] OTHER -> "<unknown>"

\* lines 75-96
sig_75 ==
  /\ pc = "sig_75"
  /\ args' = [args EXCEPT !.prefix = Prefix(p4est_base_identifier)]
  /\ out' = Append(out, StderrLine(Prefix(p4est_base_identifier)
                                     \o << "Abort: Signal ", SigStr(args.sig) >>))
  /\ pc' = "sig_98"
  /\ UNCHANGED << counters, heap, fault_state, os_state, last, paired,
                  resized, cb_calls, util >>

\* p4est_abort ();
sig_98 ==
  /\ pc = "sig_98"
  /\ pc' = "abort_223"
  /\ args' = [NoArgs EXCEPT !.sig = args.sig, !.start = Len(out)]
  /\ UNCHANGED << counters, heap, fault_state, os_state, out, last,
                  paired, resized, cb_calls, util >>

p4est_signal_handler_run == sig_75 \/ sig_98

HandlerPcs == {"sig_75", "sig_98"}

(***************************************************************************)
(* The fault pipeline: an application that installs, rebinds and removes   *)
(* the abort handler and calls p4est_abort, while signals arrive at any    *)
(* statement, those of the handler and of p4est_abort included.            *)
(***************************************************************************)
Init ==
  /\ InitCommon
  /\ Uninstalled
  /\ os_disp \in [Signals -> PriorDispositions]
  /\ prior_disp = os_disp
  /\ os_rejects \in SUBSET Signals

Next ==
  \/ \E identifier \in Identifiers, handler \in Callbacks \cup {NULLFN}, data \in Datas :
       call_set_abort_handler(identifier, handler, data)
  \/ p4est_set_abort_handler
  \/ call_p4est_abort
  \/ p4est_abort
  \/ \E sig \in Signals : deliver_handled(sig)
  \/ \E sig \in Signals : deliver_default(sig)
  \/ p4est_signal_handler_run

Spec == Init /\ [][Next]_vars

\* the state one call p4est_malloc (1) leaves when malloc returned NULL
AfterFailedMalloc ==
  /\ malloc_count = 1
  /\ free_count = 0
  /\ heap = {}
  /\ last = [NoCall EXCEPT !.fn = "malloc", !.size = 1]
  /\ paired = FALSE
  /\ resized = FALSE

\* The same program with the balance check, where the three signals have
\* their default disposition, the OS rejects at most one of them, and the
\* application may have had one failed allocation.  A process
\* that is not terminated executes its next statement, and a callback that
\* was called returns.
InitFair ==
  /\ InitAccountant \/ AfterFailedMalloc
  /\ InitProcess
  /\ Uninstalled
  /\ os_disp = [sig \in Signals |-> SIG_DFL]
  /\ prior_disp = os_disp
  /\ os_rejects \in SUBSET Signals
  /\ Cardinality(os_rejects) <= 1

NextFair ==
  \/ Next
  \/ p4est_memory_check

SpecFair ==
  /\ InitFair
  /\ [][NextFair]_vars
  /\ WF_vars(p4est_abort)
  /\ WF_vars(p4est_signal_handler_run)

(***************************************************************************)
(* Properties of the allocation accountant, checked under SpecAlloc.       *)
(***************************************************************************)
\* the counting rule of allocate: one more for a nonzero size, and for a
\* zero size exactly when the delegate returned a block
CountedAs(effective_size, dret) ==
  IF effective_size > 0 \/ dret # NULL THEN 1 ELSE 0

\* the last call that returned was fn, in a process that did not crash since
JustReturned(fn) == pc # "crashed" /\ last.fn = fn

BalanceLine == StderrLine(<< "Abort: ", "Memory balance" >>)

\* C1: after any sequence of malloc/free pairs on matching non-null
\* pointers, starting from zero counters, malloc_count equals free_count
\* and p4est_memory_check returns to the caller without entering p4est_abort.
C1_PairsBalance ==
  /\ [](paired /\ heap = {} => malloc_count = free_count)
  /\ [][(paired /\ heap = {} /\ p4est_memory_check)
          => (pc' = "idle" /\ out' = out /\ last'.fn = "memory_check")]_vars

C1_Witness ==
  /\ paired
  /\ heap = {}
  /\ pc = "idle"
  /\ last.fn = "memory_check"
  /\ malloc_count >= 2
  /\ free_count = malloc_count

\* C2 as stated: from balanced counters, one p4est_malloc call of any size
\* and any delegate result, not followed by a release, makes the next
\* p4est_memory_check enter the abort path.
C2_AnyUnmatchedMallocFails ==
  [][(last.fn = "malloc" /\ last.pre_m = last.pre_f /\ p4est_memory_check)
       => pc' = "abort_223"]_vars

\* C2 amended: from balanced counters, one p4est_malloc call that was
\* counted (nonzero size, or zero size with a non-null result), not followed
\* by a release, makes the next p4est_memory_check report "Memory balance"
\* and enter p4est_abort instead of returning.
C2_CountedUnmatchedMallocFails ==
  [][(/\ last.fn = "malloc"
      /\ last.pre_m = last.pre_f
      /\ (last.size > 0 \/ last.dret # NULL)
      /\ p4est_memory_check)
       => (pc' = "abort_223" /\ out' = Append(out, BalanceLine) /\ last' = last)]_vars

C2_Witness ==
  /\ pc = "abort_223"
  /\ out = << BalanceLine >>
  /\ last.fn = "malloc"
  /\ last.pre_m = last.pre_f
  /\ last.size > 0
  /\ last.dret = NULL

\* C7: p4est_malloc (size) adds one to malloc_count when size > 0 or the
\* delegate returned non-null, nothing when size = 0 and the delegate
\* returned NULL; it leaves free_count alone and returns the delegate's result.
C7_MallocCounts ==
  JustReturned("malloc") =>
    /\ malloc_count = last.pre_m + CountedAs(last.size, last.dret)
    /\ free_count = last.pre_f
    /\ last.ret = last.dret

C7_Witness ==
  /\ JustReturned("malloc")
  /\ last.size > 0
  /\ last.dret = NULL
  /\ malloc_count = last.pre_m + 1

\* C8: p4est_free (ptr) adds one to free_count and calls free when ptr is
\* non-null, changes no counter and calls nothing when ptr is NULL, and
\* never changes malloc_count.
C8_FreeCounts ==
  JustReturned("free") =>
    /\ malloc_count = last.pre_m
    /\ last.ptr # NULL => (free_count = last.pre_f + 1 /\ last.dealloc
                           /\ last.ptr \notin heap)
    /\ last.ptr = NULL => (free_count = last.pre_f /\ ~last.dealloc)

C8_Witness ==
  /\ JustReturned("free")
  /\ last.ptr = NULL
  /\ malloc_count > 0
  /\ free_count = last.pre_f

\* C9: p4est_realloc (ptr, 0) with ptr non-null adds one to free_count
\* exactly when the delegate returned NULL and never changes malloc_count,
\* so a block from p4est_malloc resized to zero with a NULL result leaves
\* the counters balanced without a call of p4est_free.
C9_ReallocZero ==
  (JustReturned("realloc") /\ last.ptr # NULL /\ last.size = 0) =>
    /\ malloc_count = last.pre_m
    /\ free_count = last.pre_f + (IF last.dret = NULL THEN 1 ELSE 0)
    /\ (last.pre_m = last.pre_f + 1 /\ last.dret = NULL) => malloc_count = free_count

C9_Witness ==
  /\ JustReturned("realloc")
  /\ last.ptr # NULL
  /\ last.size = 0
  /\ last.dret = NULL
  /\ last.pre_m = 1
  /\ last.pre_f = 0
  /\ malloc_count = free_count
  /\ heap = {}

\* C10: p4est_calloc (nmemb, size) and p4est_realloc (NULL, n) count as
\* p4est_malloc does for the effective size, which for p4est_calloc is the
\* product of nmemb and size in size_t arithmetic; free_count is unchanged.
C10_CallocReallocNullCount ==
  /\ JustReturned("calloc") =>
       /\ malloc_count
            = last.pre_m + CountedAs((last.nmemb * last.size) % SIZE_MOD, last.dret)
       /\ free_count = last.pre_f
  /\ (JustReturned("realloc") /\ last.ptr = NULL) =>
       /\ malloc_count = last.pre_m + CountedAs(last.size, last.dret)
       /\ free_count = last.pre_f

C10_Witness ==
  /\ JustReturned("calloc")
  /\ last.nmemb * last.size >= SIZE_MOD
  /\ last.dret = NULL
  /\ malloc_count = last.pre_m

(***************************************************************************)
(* Properties of the fault pipeline, checked under Spec and SpecFair.      *)
(***************************************************************************)
SahJustReturned == pc = "idle" /\ last.fn = "set_abort_handler"

\* C3: p4est_set_abort_handler with a non-null handler from the uninstalled
\* state (the three signal calls succeeding), followed by a call with a NULL
\* handler, leaves each of SIGINT, SIGSEGV, SIGUSR2 with the disposition it
\* had before the first call, none of them the internal handler, and
\* signals_caught false.
C3_InstallUninstallRestores ==
  (SahJustReturned /\ last.handler = NULLFN /\ last.caught # 0) =>
    /\ os_disp = prior_disp
    /\ \A sig \in Signals : os_disp[sig] # p4est_signal_handler
    /\ signals_caught = 0

C3_Witness ==
  /\ SahJustReturned
  /\ last.handler = NULLFN
  /\ last.caught # 0
  /\ prior_disp[SIGINT] = SIG_IGN
  /\ prior_disp[SIGSEGV] = SIG_DFL
  /\ os_disp = prior_disp

\* C4: while handlers are installed, p4est_set_abort_handler with a non-null
\* handler stores the new identifier, handler and data and changes neither
\* the saved dispositions, nor the OS dispositions, nor signals_caught.
C4_RebindKeepsDispositions ==
  [][(pc \in SahPcs /\ args.handler # NULLFN /\ args.caught # 0)
       => /\ UNCHANGED << os_disp, system_int_handler, system_segv_handler,
                          system_usr2_handler, signals_caught >>
          /\ pc' = "idle" => /\ p4est_base_identifier' = args.identifier
                             /\ p4est_abort_handler' = args.handler
                             /\ p4est_abort_data' = args.data]_vars

C4_Witness ==
  /\ SahJustReturned
  /\ last.caught # 0
  /\ last.handler = "cb2"
  /\ p4est_abort_handler = "cb2"
  /\ p4est_base_identifier = -1
  /\ signals_caught = 1
  /\ os_disp = [sig \in Signals |-> p4est_signal_handler]
  /\ system_int_handler = SIG_IGN

\* what the running activation of p4est_abort did so far
Activation == SubSeq(out, args.start + 1, Len(out))

\* the place of an effect in the order report, flush, flush, callback, abort
Rank(e) ==
  CASE e.ev = "stderr" -> 1
    [] e = Flush("stdout") -> 2
    [] e = Flush("stderr") -> 3
    [] e.ev = "call" -> 4
    [] OTHER -> 5

\* C5: p4est_abort writes its report, then flushes stdout and stderr, then
\* calls the registered handler with the stored data if one is registered,
\* then calls abort (); abort () is called with and without a handler, and
\* the handler is called neither before the flushes nor after abort ().
C5_AbortOrder ==
  pc \in AbortPcs \cup {"aborted"} =>
    LET a == Activation
        n == Len(a)
    IN  /\ \A i, j \in 1 .. n :
              i < j => \/ Rank(a[i]) < Rank(a[j])
                       \/ (Rank(a[i]) = 1 /\ Rank(a[j]) = 1)
        /\ pc = "callback" =>
              /\ n >= 3
              /\ a[n] = CallbackCall(p4est_abort_handler, p4est_abort_data)
              /\ a[n - 1] = Flush("stderr")
              /\ a[n - 2] = Flush("stdout")
        /\ pc = "aborted" =>
              /\ a[n] = AbortCall
              /\ \E i \in 1 .. n : a[i] = Flush("stdout")
              /\ \E i \in 1 .. n : a[i] = Flush("stderr")
              /\ p4est_abort_handler # NULLFN =>
                   a[n - 1] = CallbackCall(p4est_abort_handler, p4est_abort_data)
              /\ p4est_abort_handler = NULLFN => \A i \in 1 .. n : a[i].ev # "call"
              /\ P4EST_BACKTRACE => a[1].ev = "stderr"

C5_Witness ==
  /\ pc = "aborted"
  /\ P4EST_BACKTRACE
  /\ p4est_abort_handler = "cb1"
  /\ Len(Activation) = 6
  /\ Activation[5] = CallbackCall("cb1", p4est_abort_data)

InAbort == pc \in AbortPcs \cup HandlerPcs

\* C6: once p4est_abort or the signal handler that calls it has started, the
\* process stays on that path until it is terminated: it never returns to
\* the application or to p4est_set_abort_handler, and it is eventually
\* terminated.
C6_AbortNeverReturns ==
  /\ [][InAbort => (InAbort' \/ Terminated')]_vars
  /\ InAbort ~> Terminated

C6_Witness ==
  /\ pc = "aborted"
  /\ out[1].ev = "stderr"
  /\ out[1].line = << "Abort: ", "catching SEGV" >>
  /\ p4est_abort_handler # NULLFN
  /\ signals_caught = 0

\* C11: p4est_memory_check enters p4est_abort exactly when malloc_count
\* differs from free_count; when they are equal it returns and leaves the
\* counters and the abort-handler statics as they were; when they differ the
\* "Memory balance" report is followed by the one path of p4est_abort, on
\* which a registered handler is called with the stored data before abort ().
C11_MemoryCheckAborts ==
  /\ [][p4est_memory_check =>
          /\ (malloc_count # free_count) <=> (pc' = "abort_223")
          /\ malloc_count = free_count =>
               /\ pc' = "idle"
               /\ out' = out
               /\ UNCHANGED << counters, fault_state >>
          /\ malloc_count # free_count => out' = Append(out, BalanceLine)]_vars
  /\ [](pc \in AbortPcs \cup {"aborted"} =>
          /\ out[1] = BalanceLine
          /\ malloc_count # free_count)
  /\ [](JustReturned("memory_check") =>
          /\ last.pre_m = last.pre_f
          /\ malloc_count = last.pre_m
          /\ free_count = last.pre_f)
  /\ []((pc = "aborted" /\ p4est_abort_handler # NULLFN) =>
          /\ out[Len(out)] = AbortCall
          /\ \E i \in 2 .. Len(out) - 1 :
               out[i] = CallbackCall(p4est_abort_handler, p4est_abort_data))

C11_Witness ==
  /\ pc = "aborted"
  /\ out[1] = BalanceLine
  /\ malloc_count = 1
  /\ free_count = 2
  /\ p4est_abort_handler = "cb1"
  /\ out[Len(out) - 1] = CallbackCall("cb1", 1)
  /\ cb_calls = 1

\* the result of signal () that the statement at pc is about to test
SavedHere ==
  CASE pc = "sah_193" -> system_int_handler
    [] pc = "sah_195" -> system_segv_handler
    [] pc = "sah_197" -> system_usr2_handler
    [] OTHER -> NULLFN

\* the statements of the install branch that follow the signal () call for sig
InstallAfter(sig) ==
  CASE sig = SIGINT -> {"sah_194", "sah_195", "sah_196", "sah_197", "sah_198"}
    [] sig = SIGSEGV -> {"sah_196", "sah_197", "sah_198"}
    [] sig = SIGUSR2 -> {"sah_198"}

\* progress on the abort path: nested handlers first, then the statements
AbortMeasure ==
  10 * Cardinality(blocked)
    + (CASE pc = "sig_75" -> 1
         [] pc = "sig_98" -> 2
         [] pc = "abort_223" -> 3
         [] pc = "abort_231" -> 4
         [] pc = "abort_255" -> 5
         [] pc = "abort_256" -> 6
         [] pc = "abort_258" -> 7
         [] pc = "callback" -> 8
         [] pc = "abort_262" -> 9
         [] OTHER -> 0)

\* C12: when signal () reports SIG_ERR for one of SIGINT, SIGSEGV, SIGUSR2
\* during p4est_set_abort_handler with a non-null handler from the
\* uninstalled state, the call does not return: the process goes on in
\* p4est_abort (or in a signal that ends it); signals_caught is never set;
\* no statement after the failing signal () call of the install branch is
\* executed; and the abort path never enters p4est_set_abort_handler again
\* and advances with every step, so it cannot recurse without bound.
C12_FailedInstallAborts ==
  /\ [][(pc \in SahPcs /\ SavedHere = SIG_ERR)
          => /\ pc' \in {"abort_223", "sig_75", "killed"}
             /\ pc' = "abort_223" =>
                  /\ Len(out') = Len(out) + 1
                  /\ out'[Len(out')].ev = "stderr"]_vars
  /\ [](os_rejects # {} =>
          /\ signals_caught = 0
          /\ ~(SahJustReturned /\ last.handler # NULLFN)
          /\ \A sig \in os_rejects :
               /\ pc \notin InstallAfter(sig)
               /\ os_disp[sig] # p4est_signal_handler)
  /\ [][(os_rejects # {} /\ InAbort)
          => /\ pc' \notin SahPcs
             /\ pc' # "idle"
             /\ Terminated' \/ AbortMeasure' > AbortMeasure]_vars

C12_Witness ==
  /\ pc = "aborted"
  /\ os_rejects = {SIGUSR2}
  /\ out[1] = StderrLine(<< "Abort: ", "catching USR2" >>)
  /\ system_usr2_handler = SIG_ERR
  /\ os_disp[SIGINT] = p4est_signal_handler
  /\ os_disp[SIGSEGV] = p4est_signal_handler
  /\ os_disp[SIGUSR2] = prior_disp[SIGUSR2]
  /\ signals_caught = 0
  /\ cb_calls = 1

\* signal numbers that are none of the three
OtherSignals == {"SIGTERM", "SIGHUP"}

Mnemonic == (SIGINT :> "INT") @@ (SIGSEGV :> "SEGV") @@ (SIGUSR2 :> "USR2")

\* a report that ends with one of the mnemonics of the signal handler
IsSignalLine(e) ==
  /\ e.ev = "stderr"
  /\ e.line[Len(e.line)] \in {"INT", "SEGV", "USR2", "<unknown>"}

\* C13: the signal handler writes exactly one line "<prefix>Abort: Signal
\* <mnemonic>" (INT, SEGV, USR2; <unknown> for any other number) and only
\* then calls p4est_abort, so this line precedes the stack-frame header, the
\* call of the registered handler and the termination.
C13_SignalLineFirst ==
  /\ pc = "sig_75" => out = << >>
  /\ (pc \in {"sig_98"} \cup AbortPcs \cup {"aborted"} /\ args.sig # "none") =>
       /\ Len(out) >= 1
       /\ out[1] = StderrLine((IF p4est_base_identifier >= 0
                               THEN << "[", p4est_base_identifier, "] " >>
                               ELSE << >>)
                                \o << "Abort: Signal ", Mnemonic[args.sig] >>)
       /\ \A i \in 2 .. Len(out) : ~IsSignalLine(out[i])
       /\ pc = "sig_98" => Len(out) = 1
       /\ pc # "sig_98" => args.start = 1
  /\ \A sig \in OtherSignals : SigStr(sig) = "<unknown>"

C13_Witness ==
  /\ pc = "aborted"
  /\ args.sig = SIGUSR2
  /\ P4EST_BACKTRACE
  /\ out[1] = StderrLine(<< "[", 7, "] ", "Abort: Signal ", "USR2" >>)
  /\ out[2].line[4] = "Abort: Obtained "
  /\ \E i \in 3 .. Len(out) : out[i] = CallbackCall("cb2", 1)
  /\ out[Len(out)] = AbortCall

\* a symbol with everything up to its last '/' removed
AfterLastSlash(s) ==
  LET slashes == {i \in 1 .. Len(s) : s[i] = "/"}
  IN  IF slashes = {}
      THEN s
      ELSE SubSeq(s, (CHOOSE i \in slashes : \A j \in slashes : j <= i) + 1, Len(s))

\* the lines the running activation of p4est_abort wrote
Report == SelectSeq(Activation, LAMBDA e : e.ev = "stderr")

\* C14: compiled with P4EST_BACKTRACE, p4est_abort with stored identifier N
\* and k captured frames writes the header "[N] Abort: Obtained k stack
\* frames" followed by exactly k lines "[N]   <symbol>", the symbol without
\* everything up to its last '/'; with a negative identifier the prefix is
\* empty on every line; and the stored identifier is the one passed to the
\* most recent call of p4est_set_abort_handler that reached line 187.
C14_BacktraceReport ==
  /\ []((P4EST_BACKTRACE /\ pc \in (AbortPcs \ {"abort_223", "abort_231"}) \cup {"aborted"}) =>
          LET N == p4est_base_identifier
              pre == IF N < 0 THEN << >> ELSE << "[", N, "] " >>
          IN  \E bt \in Backtraces :
                /\ Len(bt) <= MaxFrames
                /\ Len(Report) = Len(bt) + 1
                /\ Report[1] = StderrLine(pre \o << "Abort: Obtained ", Len(bt),
                                                   " stack frames" >>)
                /\ \A i \in 1 .. Len(bt) :
                     Report[i + 1] = StderrLine(pre \o << "   " >> \o AfterLastSlash(bt[i])))
  /\ [](pc \in SahPcs \ {"sah_187"} => p4est_base_identifier = args.identifier)
  /\ [](SahJustReturned => p4est_base_identifier = last.identifier)
  /\ [][p4est_base_identifier' # p4est_base_identifier
          => (pc = "sah_187" /\ p4est_base_identifier' = args.identifier)]_vars

C14_Witness ==
  /\ pc = "aborted"
  /\ P4EST_BACKTRACE
  /\ p4est_base_identifier = 7
  /\ Len(Report) = 2
  /\ Report[1] = StderrLine(<< "[", 7, "] ", "Abort: Obtained ", 1, " stack frames" >>)
  /\ Report[2] = StderrLine(<< "[", 7, "] ", "   ", "g" >>)

(***************************************************************************)
(* The utilities: the bit-length table of lines 36-53 and the comparator   *)
(* of lines 101-105.                                                       *)
(***************************************************************************)
\* the table with 128 counted among the seven-bit values
p4est_log_lookup_table_128_as_6 ==
  << -1, 0, 1, 1, 2, 2, 2, 2, 3, 3, 3, 3, 3, 3, 3, 3,
     4, 4, 4, 4, 4, 4, 4, 4, 4, 4, 4, 4, 4, 4, 4, 4,
     5, 5, 5, 5, 5, 5, 5, 5, 5, 5, 5, 5, 5, 5, 5, 5,
     5, 5, 5, 5, 5, 5, 5, 5, 5, 5, 5, 5, 5, 5, 5, 5,
     6, 6, 6, 6, 6, 6, 6, 6, 6, 6, 6, 6, 6, 6, 6, 6,
     6, 6, 6, 6, 6, 6, 6, 6, 6, 6, 6, 6, 6, 6, 6, 6,
     6, 6, 6, 6, 6, 6, 6, 6, 6, 6, 6, 6, 6, 6, 6, 6,
     6, 6, 6, 6, 6, 6, 6, 6, 6, 6, 6, 6, 6, 6, 6, 6,
     6, 7, 7, 7, 7, 7, 7, 7, 7, 7, 7, 7, 7, 7, 7, 7,
     7, 7, 7, 7, 7, 7, 7, 7, 7, 7, 7, 7, 7, 7, 7, 7,
     7, 7, 7, 7, 7, 7, 7, 7, 7, 7, 7, 7, 7, 7, 7, 7,
     7, 7, 7, 7, 7, 7, 7, 7, 7, 7, 7, 7, 7, 7, 7, 7,
     7, 7, 7, 7, 7, 7, 7, 7, 7, 7, 7, 7, 7, 7, 7, 7,
     7, 7, 7, 7, 7, 7, 7, 7, 7, 7, 7, 7, 7, 7, 7, 7,
     7, 7, 7, 7, 7, 7, 7, 7, 7, 7, 7, 7, 7, 7, 7, 7,
     7, 7, 7, 7, 7, 7, 7, 7, 7, 7, 7, 7, 7, 7, 7, 7 >>

\* const int p4est_log_lookup_table[256]; entry v of the C array is element
\* v + 1 of the sequence
p4est_log_lookup_table ==
  << -1, 0, 1, 1, 2, 2, 2, 2, 3, 3, 3, 3, 3, 3, 3, 3,
     4, 4, 4, 4, 4, 4, 4, 4, 4, 4, 4, 4, 4, 4, 4, 4,
     5, 5, 5, 5, 5, 5, 5, 5, 5, 5, 5, 5, 5, 5, 5, 5,
     5, 5, 5, 5, 5, 5, 5, 5, 5, 5, 5, 5, 5, 5, 5, 5,
     6, 6, 6, 6, 6, 6, 6, 6, 6, 6, 6, 6, 6, 6, 6, 6,
     6, 6, 6, 6, 6, 6, 6, 6, 6, 6, 6, 6, 6, 6, 6, 6,
     6, 6, 6, 6, 6, 6, 6, 6, 6, 6, 6, 6, 6, 6, 6, 6,
     6, 6, 6, 6, 6, 6, 6, 6, 6, 6, 6, 6, 6, 6, 6, 6,
     7, 7, 7, 7, 7, 7, 7, 7, 7, 7, 7, 7, 7, 7, 7, 7,
     7, 7, 7, 7, 7, 7, 7, 7, 7, 7, 7, 7, 7, 7, 7, 7,
     7, 7, 7, 7, 7, 7, 7, 7, 7, 7, 7, 7, 7, 7, 7, 7,
     7, 7, 7, 7, 7, 7, 7, 7, 7, 7, 7, 7, 7, 7, 7, 7,
     7, 7, 7, 7, 7, 7, 7, 7, 7, 7, 7, 7, 7, 7, 7, 7,
     7, 7, 7, 7, 7, 7, 7, 7, 7, 7, 7, 7, 7, 7, 7, 7,
     7, 7, 7, 7, 7, 7, 7, 7, 7, 7, 7, 7, 7, 7, 7, 7,
     7, 7, 7, 7, 7, 7, 7, 7, 7, 7, 7, 7, 7, 7, 7, 7 >>

Bytes == 0 .. 255

\* an expression p4est_log_lookup_table[v] of the application
read_log_lookup_table(v) ==
  /\ pc = "idle"
  /\ util' = [fn |-> "log_lookup", v |-> v, ret |-> p4est_log_lookup_table[v + 1]]
  /\ UNCHANGED program

INT32_MAX == 2147483647
INT32_MIN == -INT32_MAX - 1
Int32Values == {INT32_MIN, -1, 0, 1, INT32_MAX}

\* the addresses of three adjacent int32_t objects; they and their
\* differences fit int32_t, so the conversions of line 104 keep their values
Addresses == {4096, 4100, 4104}

\* return (int32_t) v1 - (int32_t) v2;  v1 and v2 are the pointers
p4est_int32_compare(v1, v2) == v1 - v2

\* a call p4est_int32_compare (v1, v2) with the int32_t objects mem in memory
call_p4est_int32_compare(mem, v1, v2) ==
  /\ pc = "idle"
  /\ util' = [fn |-> "int32_compare", mem |-> mem, v1 |-> v1, v2 |-> v2,
              ret |-> p4est_int32_compare(v1, v2)]
  /\ UNCHANGED program

InitUtil ==
  /\ InitCommon
  /\ Uninstalled
  /\ os_disp = [sig \in Signals |-> SIG_DFL]
  /\ prior_disp = os_disp
  /\ os_rejects = {}

NextUtil ==
  \/ \E v \in Bytes : read_log_lookup_table(v)
  \/ \E mem \in [Addresses -> Int32Values], v1 \in Addresses, v2 \in Addresses :
       call_p4est_int32_compare(mem, v1, v2)

SpecUtil == InitUtil /\ [][NextUtil]_vars

\* C15: p4est_int32_compare, called with pointers to the int32_t values a
\* and b, returns 0 when a = b, a negative value when a < b and a positive
\* value when a > b, for every pair including INT32_MIN and INT32_MAX.
C15_SignOfDifference ==
  util.fn = "int32_compare" =>
    LET a == util.mem[util.v1]
        b == util.mem[util.v2]
    IN  /\ a = b => util.ret = 0
        /\ a < b => util.ret < 0
        /\ a > b => util.ret > 0

\* the largest e with 2^e <= v, and -1 for v = 0
FloorLog2(v) ==
  IF v = 0 THEN -1
  ELSE CHOOSE e \in 0 .. 7 : 2^e <= v /\ v < 2^(e + 1)

\* C16: for every byte v, p4est_log_lookup_table[v] is floor(log2(v)) when
\* v >= 1 and -1 when v = 0; the table has exactly 256 entries, and it is a
\* constant of the program that no operation assigns.
C16_LogLookupTable ==
  /\ Len(p4est_log_lookup_table) = 256
  /\ util.fn = "log_lookup" =>
       /\ util.v \in Bytes
       /\ util.ret = FloorLog2(util.v)

C16_Witness ==
  /\ util.fn = "log_lookup"
  /\ util.v = 128
  /\ util.ret = 7

\* the statements that call signal ()
SignalCalls == {"sah_192", "sah_194", "sah_196", "sah_201", "sah_203", "sah_205"}

\* C17: between the calls of the application, so after every call of
\* p4est_set_abort_handler that returned, signals_caught is true exactly
\* when the stored handler is non-null, and while signals_caught is false
\* the three saved dispositions are NULL; a call with a NULL handler in the
\* uninstalled state executes no signal () call and changes neither the OS
\* dispositions, nor the saved ones, nor signals_caught.
C17_FlagMatchesCallback ==
  /\ [](pc = "idle" =>
          /\ (signals_caught # 0) <=> (p4est_abort_handler # NULLFN)
          /\ signals_caught = 0 =>
               /\ system_int_handler = NULLFN
               /\ system_segv_handler = NULLFN
               /\ system_usr2_handler = NULLFN)
  /\ [][(pc \in SahPcs /\ args.handler = NULLFN /\ args.caught = 0)
          => /\ pc' \notin SignalCalls
             /\ UNCHANGED << os_disp, system_int_handler, system_segv_handler,
                             system_usr2_handler, signals_caught >>]_vars

C17_Witness ==
  /\ SahJustReturned
  /\ last.handler = NULLFN
  /\ last.caught = 0
  /\ last.identifier = 7
  /\ p4est_base_identifier = 7
  /\ p4est_abort_handler = NULLFN
  /\ signals_caught = 0
  /\ os_disp = prior_disp
  /\ os_disp[SIGUSR2] = SIG_IGN

\* C18: whenever p4est_signal_handler is the OS disposition of SIGINT,
\* SIGSEGV or SIGUSR2, between the statements of p4est_set_abort_handler as
\* well, a non-null handler is stored, so a process that a watched signal
\* brought to abort () has called the registered handler.
C18_HandlerImpliesCallback ==
  /\ (\E sig \in Signals : os_disp[sig] = p4est_signal_handler)
       => p4est_abort_handler # NULLFN
  /\ (pc = "aborted" /\ args.sig # "none")
       => \E i \in 1 .. Len(out) : out[i].ev = "call"

\* C19: the registered handler is called at most once before the process
\* is terminated, also when a watched signal is delivered while p4est_abort
\* or the handler itself is running.
C19_CallbackAtMostOnce == cb_calls <= 1

\* C20: p4est_realloc with a non-null pointer and a nonzero size leaves
\* malloc_count and free_count as they were, whether realloc returned a
\* moved block, the same block or NULL; so after blocks were allocated,
\* resized any number of times to nonzero sizes and each released once, the
\* counters are balanced.
C20_ResizeKeepsCounters ==
  /\ (JustReturned("realloc") /\ last.ptr # NULL /\ last.size > 0) =>
       /\ malloc_count = last.pre_m
       /\ free_count = last.pre_f
  /\ resized => malloc_count - free_count = Cardinality(heap)
  /\ (resized /\ heap = {}) => malloc_count = free_count

C20_Witness ==
  /\ resized
  /\ ~paired
  /\ heap = {}
  /\ JustReturned("free")
  /\ malloc_count = 2
  /\ free_count = 2

====
